---------------------------- MODULE Spec2Model ----------------------------
(***************************************************************************)
(* Model of the variant tracker (src/src/app.py): the start-up that        *)
(* fetches and preprocesses the data set, and the three Dash callbacks     *)
(* reset_date_range, filter_data and update_graph.                         *)
(*                                                                         *)
(* Representation.                                                         *)
(*   - A calendar day is an integer. A timestamp (pandas Timestamp) is     *)
(*     day * TicksPerDay + tick, so that `.dt.date` is a real truncation.  *)
(*   - A float share is an integer count of hundredths; arithmetic on it   *)
(*     is exact (the rounding of binary floating point is not modelled).   *)
(*     A mean is a reduced fraction num/den.                               *)
(*   - NaT and NaN (pandas' missing date and missing float) are the        *)
(*     negative sentinels NaT and NaN.                                     *)
(*   - A Python value that is None, a str or a list is a record with a     *)
(*     kind field.                                                         *)
(***************************************************************************)
EXTENDS Integers, Sequences, FiniteSets, TLC

VARIABLES
    pc,                 \* "init" | "failed" | "serving" | "loaded": the module's
                        \* start-up, and the page loaded in a browser
    raw,                \* the rows fetch_data returns (results of client.get)
    df,                 \* the module-level DataFrame df
    df0,                \* history: df as built by the start-up
    start_date,         \* date-picker-range.start_date
    end_date,           \* date-picker-range.end_date
    selected_variants,  \* variant-selector.value
    graph_type,         \* graph-type-selector.value
    n_clicks,           \* reset-date-range.n_clicks
    filtered_data,      \* dcc.Store 'filtered-data'.data
    figure,             \* variant-distribution.figure
    pending,            \* callbacks the renderer has requested and not yet run
    lastChange,         \* history: the last user action
    idleAtChange,       \* history: no callback was pending when it happened
    runs,               \* history: callbacks run since the last user action
    lastCall,           \* the last direct callback request (function, arguments)
    lastRet             \* and its response

vars == <<pc, raw, df, df0, start_date, end_date, selected_variants, graph_type,
          n_clicks, filtered_data, figure, pending, lastChange, idleAtChange,
          runs, lastCall, lastRet>>

uiVars == <<start_date, end_date, selected_variants, graph_type, n_clicks,
            filtered_data, figure, pending, lastChange, idleAtChange, runs>>

callVars == <<lastCall, lastRet>>

---------------------------------------------------------------------------
(* Bounds of the model *)

\* rows in a fetched data set
MaxRows == 2
\* entries in a category selection of a direct request
MaxSel == 2
\* entries in a category selection made in the browser
MaxUISel == 1
\* clicks on the reset button
MaxClicks == 1
\* timestamp ticks in a day
TicksPerDay == 2
\* the day the process starts (datetime.today())
Today == 16

(* Program constants *)

\* timedelta(days=15) of get_default_date_range
DefaultDays == 15

NaT == -1
NaN == -1

\* the values of the 'variant' column, in sorted order
Variants == <<"A", "B">>
VariantSet == {Variants[i] : i \in 1..Len(Variants)}
ALL == "ALL"

\* get_default_date_range
get_default_date_range == [start |-> Today - DefaultDays, end |-> Today]

start_date_default == get_default_date_range.start
end_date_default == get_default_date_range.end

---------------------------------------------------------------------------
(* Sequences *)

RECURSIVE MaskFrom(_, _, _)
\* the elements s[j], j >= i, at which the boolean sequence mask is TRUE,
\* in s's order
MaskFrom(s, mask, i) ==
    IF i > Len(s) THEN <<>>
    ELSE (IF mask[i] THEN <<s[i]>> ELSE <<>>) \o MaskFrom(s, mask, i + 1)

\* frame[mask]: boolean-mask indexing of a DataFrame, which makes a new frame
Mask(s, mask) == MaskFrom(s, mask, 1)

\* the sequences over S of length at most n
SeqUpTo(S, n) == UNION {[1..k -> S] : k \in 0..n}

\* the sequences over S of length at most n without a repeated element
DistinctSeqUpTo(S, n) ==
    {s \in SeqUpTo(S, n) : \A i, j \in 1..Len(s) : i # j => s[i] # s[j]}

---------------------------------------------------------------------------
(* Python values *)

PyNone == [kind |-> "none", items |-> <<>>, chars |-> <<>>]
PyList(items) == [kind |-> "list", items |-> items, chars |-> <<>>]
PyStr(chars) == [kind |-> "str", items |-> <<>>, chars |-> chars]

\* the str 'ALL' as its characters
StrALL == <<"A", "L", "L">>

\* needle is a substring of hay (str.__contains__)
IsSubstring(needle, hay) ==
    \E k \in 0..(Len(hay) - Len(needle)) :
        \A i \in 1..Len(needle) : hay[k + i] = needle[i]

\* `'ALL' in v` for a str (substring) or a list (membership); v is not None
PyContainsALL(v) ==
    IF v.kind = "str" THEN IsSubstring(StrALL, v.chars)
    ELSE \E i \in 1..Len(v.items) : v.items[i] = ALL

\* len(v) for a str or a list
PyLen(v) == IF v.kind = "str" THEN Len(v.chars) ELSE Len(v.items)

---------------------------------------------------------------------------
(* Dates *)

\* pd.to_datetime of a date-time string with the given day and tick
to_datetime(day, tick) == day * TicksPerDay + tick

\* Timestamp.date() / Series.dt.date: the calendar day of a timestamp
DtDate(ts) == ts \div TicksPerDay

\* pd.to_datetime(s).date() of a 'YYYY-MM-DD' string of the date picker
PickerDate(day) == DtDate(to_datetime(day, 0))

---------------------------------------------------------------------------
(* Start-up: fetch_data and preprocess_data *)

\* A raw field: present and parsable ("ok"), absent from the row ("missing"),
\* or present and unparsable ("bad").
RawDate(day, tick) == [k |-> "ok", day |-> day, tick |-> tick, num |-> 0]
RawNum(n) == [k |-> "ok", day |-> 0, tick |-> 0, num |-> n]
RawMissing == [k |-> "missing", day |-> 0, tick |-> 0, num |-> 0]
RawBad == [k |-> "bad", day |-> 0, tick |-> 0, num |-> 0]

\* DataFrame.from_records gives a column to every key some row has
HasColumn(rows, col) == \E i \in 1..Len(rows) : rows[i][col].k # "missing"

\* the conversions with errors='coerce': nothing raises
Unparsable_coerce(rows, col) == FALSE

\* pd.to_datetime / astype(float) raise on a value they cannot parse
Unparsable(rows, col) == \E i \in 1..Len(rows) : rows[i][col].k = "bad"

\* pd.to_datetime of one cell: a missing value becomes NaT
ParseDate(cell) ==
    IF cell.k = "missing" THEN NaT ELSE to_datetime(cell.day, cell.tick)

\* astype(float) of one cell: a missing value becomes NaN
ParseFloat(cell) == IF cell.k = "missing" THEN NaN ELSE cell.num

Columns == {"week_ending", "creation_date", "share"}

\* preprocess_data: raises (KeyError for an absent column, ValueError for an
\* unparsable value) or returns the typed frame
preprocess_data(rows) ==
    IF \E c \in Columns : ~HasColumn(rows, c) \/ Unparsable(rows, c)
    THEN [ok |-> FALSE, df |-> <<>>]
    ELSE [ok |-> TRUE,
          df |-> [i \in 1..Len(rows) |->
                    [variant |-> rows[i].variant,
                     week_ending |-> ParseDate(rows[i].week_ending),
                     creation_date |-> ParseDate(rows[i].creation_date),
                     share |-> ParseFloat(rows[i].share)]]]

---------------------------------------------------------------------------
(* filter_data *)

\* line 155 raises before it yields a value: `'ALL' not in None` is a
\* TypeError, and it is evaluated before `selected_variants is not None`
ConditionRaises(sel) == sel.kind = "none"

\* the condition without its sentinel test
CategoryFilterApplies_no_sentinel(sel) ==
    sel.kind # "none" /\ PyLen(sel) > 0

\* line 155, for a selection that is a str or a list
CategoryFilterApplies(sel) ==
    ~PyContainsALL(sel) /\ sel.kind # "none" /\ PyLen(sel) > 0

\* line 156: Series.isin raises TypeError for a str argument
IsInRaises(sel) == sel.kind = "str"

\* Series.isin(list)
IsIn(v, sel) == \E i \in 1..Len(sel.items) : sel.items[i] = v

\* the mask with the end bound compared on timestamps, not on days
InDateRange_timestamps(ts, s, e) ==
    /\ ts # NaT
    /\ DtDate(ts) >= s
    /\ ts <= to_datetime(e, 0)

\* lines 158-161: the date mask; a NaT compares False
InDateRange(ts, s, e) ==
    /\ ts # NaT
    /\ DtDate(ts) >= s
    /\ DtDate(ts) <= e

\* line 163
ScaleShare(r) ==
    [r EXCEPT !.share = IF r.share = NaN THEN NaN ELSE r.share * 100]

\* line 163 applied to the module-level frame instead of a copy
df_after_filter_data_in_place(d) == [i \in 1..Len(d) |-> ScaleShare(d[i])]

\* the module-level df after a call of filter_data: the call works on
\* df.copy() and on frames made by boolean indexing, never on df itself
df_after_filter_data(d) == d

\* filter_data(start_date, end_date, selected_variants) on the frame d;
\* start and end are the picker's day strings
filter_data(d, start, end, sel) ==
    IF ConditionRaises(sel) \/ (CategoryFilterApplies(sel) /\ IsInRaises(sel))
    THEN [ok |-> FALSE, records |-> <<>>]
    ELSE LET s == PickerDate(start)
             e == PickerDate(end)
             byVariant ==
                 IF CategoryFilterApplies(sel)
                 THEN Mask(d, [i \in 1..Len(d) |-> IsIn(d[i].variant, sel)])
                 ELSE d
             byDate ==
                 Mask(byVariant,
                      [i \in 1..Len(byVariant) |->
                         InDateRange(byVariant[i].week_ending, s, e)])
         IN [ok |-> TRUE,
             records |-> [i \in 1..Len(byDate) |-> ScaleShare(byDate[i])]]

---------------------------------------------------------------------------
(* The store and update_graph *)

\* a value of dcc.Store 'filtered-data': None, or a list of records
StoreNone == [isNone |-> TRUE, records |-> <<>>]
StoreOf(records) == [isNone |-> FALSE, records |-> records]

RECURSIVE Gcd(_, _)
Gcd(a, b) == IF b = 0 THEN a ELSE Gcd(b, a % b)

\* a float that is a quotient of two integers, reduced; NaN for 0/0
Quotient(n, d) ==
    IF d = 0 THEN [nan |-> TRUE, num |-> 0, den |-> 1]
    ELSE LET g == Gcd(n, d)
         IN IF g = 0 THEN [nan |-> FALSE, num |-> 0, den |-> 1]
            ELSE [nan |-> FALSE, num |-> n \div g, den |-> d \div g]

RECURSIVE SumShare(_, _)
\* the sum of the shares of rows[i..], NaN skipped
SumShare(rows, i) ==
    IF i > Len(rows) THEN 0
    ELSE (IF rows[i].share = NaN THEN 0 ELSE rows[i].share)
         + SumShare(rows, i + 1)

RECURSIVE CountShare(_, _)
\* the number of shares of rows[i..] that are not NaN
CountShare(rows, i) ==
    IF i > Len(rows) THEN 0
    ELSE (IF rows[i].share = NaN THEN 0 ELSE 1) + CountShare(rows, i + 1)

\* the aggregation 'sum' in place of 'mean'
MeanShare_sum(rows) == Quotient(SumShare(rows, 1), 1)

\* Series.mean() of the share column (skipna)
MeanShare(rows) == Quotient(SumShare(rows, 1), CountShare(rows, 1))

RECURSIVE GroupByMean(_, _)
\* line 186: groupby('variant', as_index=False).agg({'share': 'mean'}):
\* one row per variant that occurs, in sorted key order
GroupByMean(rows, k) ==
    IF k > Len(Variants) THEN <<>>
    ELSE LET group ==
                 Mask(rows, [i \in 1..Len(rows) |-> rows[i].variant = Variants[k]])
         IN (IF Len(group) = 0 THEN <<>>
             ELSE <<[variant |-> Variants[k], share |-> MeanShare(group)]>>)
            \o GroupByMean(rows, k + 1)

FigNone == [kind |-> "none", points |-> <<>>, bars |-> <<>>]
\* line 177: px.scatter(title="No data available for the selected criteria.")
FigNoData == [kind |-> "nodata", points |-> <<>>, bars |-> <<>>]
\* lines 180-184: one point per record
FigBox(rows) ==
    [kind |-> "box",
     points |-> [i \in 1..Len(rows) |->
                   [variant |-> rows[i].variant, share |-> rows[i].share]],
     bars |-> <<>>]
\* lines 186-191
FigBar(rows) == [kind |-> "bar", points |-> <<>>, bars |-> GroupByMean(rows, 1)]

\* a test for None alone
FrameIsEmpty_none_only(data) == data.isNone

\* line 175: DataFrame(None) and DataFrame([]) are empty
FrameIsEmpty(data) == data.isNone \/ Len(data.records) = 0

\* update_graph(filtered_data, graph_type); with data and a graph type that is
\* neither 'box' nor 'bar', line 193 reads the unbound fig (UnboundLocalError)
update_graph(data, g) ==
    IF FrameIsEmpty(data) THEN [ok |-> TRUE, fig |-> FigNoData]
    ELSE IF g = "box" THEN [ok |-> TRUE, fig |-> FigBox(data.records)]
    ELSE IF g = "bar" THEN [ok |-> TRUE, fig |-> FigBar(data.records)]
    ELSE [ok |-> FALSE, fig |-> FigNone]

\* the module-level df after a call of update_graph, which never reads it
df_after_update_graph(d) == d

\* reset_date_range(n_clicks): the three outputs, or no_update
reset_date_range(n) ==
    IF n > 0
    THEN [update |-> TRUE, start_date |-> start_date_default,
          end_date |-> end_date_default, graph_type |-> "bar"]
    ELSE [update |-> FALSE, start_date |-> 0, end_date |-> 0, graph_type |-> ""]

---------------------------------------------------------------------------
(* Inputs *)

\* week_ending strings: midnight of the default start day, and a later tick
\* of the day the process starts
WeekCells == {RawDate(start_date_default, 0), RawDate(Today, TicksPerDay - 1)}
CreationCell == RawDate(Today, 0)

RawRows(weeks, creations, shares) ==
    [variant : VariantSet, week_ending : weeks, creation_date : creations,
     share : shares]

\* the fetched data sets of the start-up specification: every field may be
\* parsable, missing or unparsable
StartupDatasets ==
    SeqUpTo(RawRows({RawDate(Today, 0), RawMissing, RawBad},
                    {CreationCell, RawMissing, RawBad},
                    {RawNum(10), RawMissing, RawBad}), MaxRows)

\* of the specification of direct filter_data requests
CallDatasets ==
    SeqUpTo(RawRows(WeekCells \cup {RawMissing}, {CreationCell},
                    {RawNum(10), RawMissing}), MaxRows)

\* of the specification of direct update_graph requests
GraphDatasets ==
    SeqUpTo(RawRows({RawDate(Today, 0)}, {CreationCell},
                    {RawNum(10), RawNum(30), RawMissing}), MaxRows)

\* of the interactive specification: a variant reported on the default start
\* day and another reported on the day the process starts
UIRows ==
    {[variant |-> Variants[1], week_ending |-> RawDate(start_date_default, 0),
      creation_date |-> CreationCell, share |-> RawNum(10)],
     [variant |-> Variants[2], week_ending |-> RawDate(Today, TicksPerDay - 1),
      creation_date |-> CreationCell, share |-> RawNum(30)]}
UIDatasets == SeqUpTo(UIRows, Cardinality(UIRows))

\* the days a direct request names: the days of the data and their neighbours
CallDays == {start_date_default, start_date_default + 1, Today - 1, Today}
\* the days picked in the browser
UIDays == {start_date_default, Today}

Options == VariantSet \cup {ALL}
\* variant-selector.value as the layout sets it: the str 'ALL'
InitialSelection == PyStr(StrALL)
\* the selections of a direct request: None, the str 'ALL', a list
CallSelections ==
    {PyNone, InitialSelection}
    \cup {PyList(s) : s \in DistinctSeqUpTo(Options, MaxSel)}
\* the selections a multi-valued dropdown yields: a list, possibly empty
UISelections == {PyList(s) : s \in DistinctSeqUpTo(Options, MaxUISel)}

\* graph-type-selector.value: an option, or None once the dropdown is cleared
GraphTypes == {"box", "bar", "None"}

Callbacks == {"reset_date_range", "filter_data", "update_graph"}

NoCall == [fn |-> "none", start |-> 0, end |-> 0, sel |-> PyNone,
           data |-> StoreNone, mode |-> ""]
NoRet == [ok |-> TRUE, records |-> <<>>, fig |-> FigNone]

---------------------------------------------------------------------------
(* Initial states *)

InitWith(datasets) ==
    /\ pc = "init"
    /\ raw \in datasets
    /\ df = <<>>
    /\ df0 = <<>>
    /\ start_date = start_date_default
    /\ end_date = end_date_default
    /\ selected_variants = InitialSelection
    /\ graph_type = "bar"
    /\ n_clicks = 0
    /\ filtered_data = StoreNone
    /\ figure = FigNone
    /\ pending = {}
    /\ lastChange = "none"
    /\ idleAtChange = TRUE
    /\ runs = <<>>
    /\ lastCall = NoCall
    /\ lastRet = NoRet

Init == InitWith(UIDatasets)
InitStartup == InitWith(StartupDatasets)
InitCalls == InitWith(CallDatasets)
InitGraph == InitWith(GraphDatasets)

---------------------------------------------------------------------------
(* Start-up, lines 55-61: any exception of preprocess_data ends the process *)

Startup ==
    /\ pc = "init"
    /\ LET r == preprocess_data(raw)
       IN IF r.ok
          THEN pc' = "serving" /\ df' = r.df /\ df0' = r.df
          ELSE pc' = "failed" /\ UNCHANGED <<df, df0>>
    /\ UNCHANGED <<raw, uiVars, callVars>>

---------------------------------------------------------------------------
(* Direct callback requests *)

\* a process is sent one request, with any arguments
CallFilter(s, e, sel) ==
    /\ pc = "serving"
    /\ lastCall.fn = "none"
    /\ LET r == filter_data(df, s, e, sel)
       IN /\ lastCall' = [NoCall EXCEPT !.fn = "filter_data", !.start = s,
                                        !.end = e, !.sel = sel]
          /\ lastRet' = [NoRet EXCEPT !.ok = r.ok, !.records = r.records]
    /\ df' = df_after_filter_data(df)
    /\ UNCHANGED <<pc, raw, df0, uiVars>>

CallFilterAny ==
    \E s \in CallDays, e \in CallDays, sel \in CallSelections :
        CallFilter(s, e, sel)

\* the values the store can hold: None, or what filter_data returns
StoreValues(d) ==
    {StoreNone} \cup
    {StoreOf(filter_data(d, s, e, sel).records) :
        s \in CallDays, e \in CallDays, sel \in CallSelections \ {PyNone}}

CallUpdateGraph(data, g) ==
    /\ pc = "serving"
    /\ lastCall.fn = "none"
    /\ LET r == update_graph(data, g)
       IN /\ lastCall' = [NoCall EXCEPT !.fn = "update_graph", !.data = data,
                                        !.mode = g]
          /\ lastRet' = [NoRet EXCEPT !.ok = r.ok, !.fig = r.fig]
    /\ df' = df_after_update_graph(df)
    /\ UNCHANGED <<pc, raw, df0, uiVars>>

CallUpdateGraphAny ==
    \E data \in StoreValues(df), g \in GraphTypes : CallUpdateGraph(data, g)

---------------------------------------------------------------------------
(* The browser session: Dash requests every callback when the page loads,  *)
(* a callback when one of its Inputs changes, and runs a requested         *)
(* callback once no requested callback writes one of its Inputs.           *)

Change(kind) ==
    /\ lastChange' = kind
    /\ idleAtChange' = (pending = {})
    /\ runs' = <<>>

PageLoad ==
    /\ pc = "serving"
    /\ pc' = "loaded"
    /\ pending' = Callbacks
    /\ Change("load")
    /\ UNCHANGED <<raw, df, df0, start_date, end_date, selected_variants,
                   graph_type, n_clicks, filtered_data, figure, callVars>>

ChangeDates ==
    /\ pc = "loaded"
    /\ \E s \in UIDays, e \in UIDays :
          /\ <<s, e>> # <<start_date, end_date>>
          /\ start_date' = s
          /\ end_date' = e
    /\ pending' = pending \cup {"filter_data"}
    /\ Change("dates")
    /\ UNCHANGED <<pc, raw, df, df0, selected_variants, graph_type, n_clicks,
                   filtered_data, figure, callVars>>

ChangeVariants ==
    /\ pc = "loaded"
    /\ \E sel \in UISelections :
          /\ sel # selected_variants
          /\ selected_variants' = sel
    /\ pending' = pending \cup {"filter_data"}
    /\ Change("variants")
    /\ UNCHANGED <<pc, raw, df, df0, start_date, end_date, graph_type, n_clicks,
                   filtered_data, figure, callVars>>

\* graph-type-selector as an Input of filter_data too
ChangeGraphType_refilter ==
    /\ pc = "loaded"
    /\ \E g \in GraphTypes :
          /\ g # graph_type
          /\ graph_type' = g
    /\ pending' = pending \cup {"filter_data", "update_graph"}
    /\ Change("graph")
    /\ UNCHANGED <<pc, raw, df, df0, start_date, end_date, selected_variants,
                   n_clicks, filtered_data, figure, callVars>>

ChangeGraphType ==
    /\ pc = "loaded"
    /\ \E g \in GraphTypes :
          /\ g # graph_type
          /\ graph_type' = g
    /\ pending' = pending \cup {"update_graph"}
    /\ Change("graph")
    /\ UNCHANGED <<pc, raw, df, df0, start_date, end_date, selected_variants,
                   n_clicks, filtered_data, figure, callVars>>

ClickReset ==
    /\ pc = "loaded"
    /\ n_clicks < MaxClicks
    /\ n_clicks' = n_clicks + 1
    /\ pending' = pending \cup {"reset_date_range"}
    /\ Change("reset")
    /\ UNCHANGED <<pc, raw, df, df0, start_date, end_date, selected_variants,
                   graph_type, filtered_data, figure, callVars>>

RunReset ==
    /\ "reset_date_range" \in pending
    /\ LET r == reset_date_range(n_clicks)
       IN IF r.update
          THEN /\ start_date' = r.start_date
               /\ end_date' = r.end_date
               /\ graph_type' = r.graph_type
               /\ pending' = (pending \ {"reset_date_range"})
                                \cup {"filter_data", "update_graph"}
          ELSE /\ pending' = pending \ {"reset_date_range"}
               /\ UNCHANGED <<start_date, end_date, graph_type>>
    /\ runs' = Append(runs, "reset_date_range")
    /\ UNCHANGED <<pc, raw, df, df0, selected_variants, n_clicks, filtered_data,
                   figure, lastChange, idleAtChange, callVars>>

RunFilter ==
    /\ "filter_data" \in pending
    /\ "reset_date_range" \notin pending
    /\ LET r == filter_data(df, start_date, end_date, selected_variants)
       IN IF r.ok
          THEN /\ filtered_data' = StoreOf(r.records)
               /\ pending' = (pending \ {"filter_data"}) \cup {"update_graph"}
          ELSE /\ pending' = pending \ {"filter_data"}
               /\ UNCHANGED filtered_data
    /\ df' = df_after_filter_data(df)
    /\ runs' = Append(runs, "filter_data")
    /\ UNCHANGED <<pc, raw, df0, start_date, end_date, selected_variants,
                   graph_type, n_clicks, figure, lastChange, idleAtChange,
                   callVars>>

RunUpdateGraph ==
    /\ "update_graph" \in pending
    /\ "reset_date_range" \notin pending
    /\ "filter_data" \notin pending
    /\ LET r == update_graph(filtered_data, graph_type)
       IN figure' = IF r.ok THEN r.fig ELSE figure
    /\ pending' = pending \ {"update_graph"}
    /\ df' = df_after_update_graph(df)
    /\ runs' = Append(runs, "update_graph")
    /\ UNCHANGED <<pc, raw, df0, start_date, end_date, selected_variants,
                   graph_type, n_clicks, filtered_data, lastChange, idleAtChange,
                   callVars>>

---------------------------------------------------------------------------
(* Specifications *)

Next ==
    \/ Startup
    \/ PageLoad
    \/ ChangeDates
    \/ ChangeVariants
    \/ ChangeGraphType
    \/ ClickReset
    \/ RunReset
    \/ RunFilter
    \/ RunUpdateGraph

\* the browser session
Spec == Init /\ [][Next]_vars

\* the start-up alone, on every kind of fetched row
SpecStartup == InitStartup /\ [][Startup]_vars

NextCalls == Startup \/ CallFilterAny

\* filter_data requested directly
SpecCalls == InitCalls /\ [][NextCalls]_vars

NextGraph == Startup \/ CallUpdateGraphAny

\* update_graph requested directly
SpecGraph == InitGraph /\ [][NextGraph]_vars

---------------------------------------------------------------------------
(* Vocabulary of the properties *)

Serving == pc \in {"serving", "loaded"}
\* the browser session is at rest: every requested callback has run
Ready == pc = "loaded" /\ pending = {}

FilterCalled == lastCall.fn = "filter_data"
GraphCalled == lastCall.fn = "update_graph"

\* the calendar day a timestamp falls on, by its defining inequality
DayOf(ts) ==
    CHOOSE d \in 0..(Today + 1) :
        d * TicksPerDay <= ts /\ ts < (d + 1) * TicksPerDay

\* record r of the data set, with its share as a percentage, is in out
InOutput(r, out) ==
    \E j \in 1..Len(out) :
        /\ out[j].variant = r.variant
        /\ out[j].week_ending = r.week_ending
        /\ out[j].creation_date = r.creation_date
        /\ out[j].share = (IF r.share = NaN THEN NaN ELSE 100 * r.share)

\* the selection names the category, or the sentinel
Selected(sel, v) ==
    \/ sel.kind = "str" /\ sel.chars = StrALL
    \/ sel.kind = "list" /\ \E i \in 1..Len(sel.items) : sel.items[i] \in {v, ALL}

\* the selection holds the sentinel
HoldsSentinel(sel) == Selected(sel, ALL)

\* the records of d whose day lies in [s, e], every category, shares as
\* percentages, in d's order
InRangeAll(d, s, e) ==
    LET Dated(r) == r.week_ending # NaT /\ s <= DayOf(r.week_ending)
                    /\ DayOf(r.week_ending) <= e
        kept == SelectSeq(d, Dated)
    IN [i \in 1..Len(kept) |->
          [kept[i] EXCEPT !.share = IF @ = NaN THEN NaN ELSE 100 * @]]

---------------------------------------------------------------------------
(* C1 *)

\* C1: filter_data applies the date predicate inclusively at both bounds. For
\* a date range start <= end, a record whose week_ending day equals start or
\* equals end is in the output when its category is selected (by name or by
\* the sentinel); a record dated one day before start or one day after end
\* is never in the output, whatever the range and the selection.
C1_InclusiveBounds ==
    (Serving /\ FilterCalled) =>
        \A i \in 1..Len(df) :
            LET r == df[i]
                s == lastCall.start
                e == lastCall.end
            IN r.week_ending # NaT =>
                 /\ ( /\ s <= e
                      /\ DayOf(r.week_ending) \in {s, e}
                      /\ Selected(lastCall.sel, r.variant) )
                    => (lastRet.ok /\ InOutput(r, lastRet.records))
                 /\ DayOf(r.week_ending) \in {s - 1, e + 1}
                    => ~InOutput(r, lastRet.records)

\* a request whose range ends on the day of a record that is returned and
\* starts the day after a record that is not
C1_Witness ==
    /\ FilterCalled
    /\ lastRet.ok
    /\ lastCall.start < lastCall.end
    /\ \E i, j \in 1..Len(df) :
          /\ df[i].week_ending # NaT
          /\ df[j].week_ending # NaT
          /\ DayOf(df[i].week_ending) = lastCall.end
          /\ df[i].week_ending % TicksPerDay # 0
          /\ Selected(lastCall.sel, df[i].variant)
          /\ InOutput(df[i], lastRet.records)
          /\ DayOf(df[j].week_ending) = lastCall.start - 1
          /\ Selected(lastCall.sel, df[j].variant)
          /\ ~InOutput(df[j], lastRet.records)

---------------------------------------------------------------------------
(* C3 *)

\* C3: a category selection that is empty or absent ([] or None) is treated
\* as "all categories": filter_data completes without error and returns the
\* records it returns for the 'ALL' sentinel.
C3_EmptyOrAbsentIsAll ==
    (FilterCalled /\ (lastCall.sel.kind = "none"
                      \/ (lastCall.sel.kind = "list" /\ lastCall.sel.items = <<>>)))
        => /\ lastRet.ok
           /\ lastRet.records = InRangeAll(df, lastCall.start, lastCall.end)

---------------------------------------------------------------------------
(* C8 *)

\* C8: for every non-empty data set and every category selection, filter_data
\* with start later than end returns an empty sequence, and raises no error.
C8_ReversedRangeIsEmpty ==
    (FilterCalled /\ Len(df) > 0 /\ lastCall.start > lastCall.end)
        => (lastRet.ok /\ lastRet.records = <<>>)

---------------------------------------------------------------------------
(* C10 *)

\* C10: whenever the selection holds the 'ALL' sentinel, alone or together
\* with category names, filter_data applies no category filter: it returns
\* every record in the date range, of every category.
C10_SentinelWins ==
    (FilterCalled /\ HoldsSentinel(lastCall.sel))
        => /\ lastRet.ok
           /\ lastRet.records = InRangeAll(df, lastCall.start, lastCall.end)

\* a request naming the sentinel and one category that returns a record of
\* another category
C10_Witness ==
    /\ FilterCalled
    /\ lastCall.sel.kind = "list"
    /\ \E i, j \in 1..Len(lastCall.sel.items) :
          lastCall.sel.items[i] = ALL /\ lastCall.sel.items[j] \in VariantSet
    /\ \E k \in 1..Len(lastRet.records) :
          \A j \in 1..Len(lastCall.sel.items) :
              lastRet.records[k].variant # lastCall.sel.items[j]

---------------------------------------------------------------------------
(* C2 *)

AnyCell(kind) ==
    \E i \in 1..Len(raw), c \in Columns : raw[i][c].k = kind

---------------------------------------------------------------------------
(* C4 *)

FilterThenUpdate(s) ==
    \E i, j \in 1..Len(s) :
        i < j /\ s[i] = "filter_data" /\ s[j] = "update_graph"

\* C4 as stated: a change of any one of the three parameters (date range,
\* category selection, display mode) makes filter_data run and then
\* update_graph run before the session is at rest again.
C4_FullPipelineOnEveryChange ==
    (Ready /\ lastChange \in {"dates", "variants", "graph"})
        => FilterThenUpdate(runs)

\* C4 as amended: a change of the date range or of the category selection
\* makes filter_data run and then update_graph run before the session is at
\* rest again; a change of the display mode made while no callback is
\* pending re-runs update_graph alone, on the stored filter result.
C4_PipelinePerParameter ==
    Ready =>
        /\ lastChange \in {"dates", "variants"} => FilterThenUpdate(runs)
        /\ (lastChange = "graph" /\ idleAtChange) => runs = <<"update_graph">>

\* at rest after a change of the display mode alone
C4_Witness ==
    /\ Ready
    /\ lastChange = "graph"
    /\ idleAtChange
    /\ graph_type = "box"
    /\ figure.kind = "box"

---------------------------------------------------------------------------
(* C5 *)

\* C5: filtering and aggregation never change the data set: df is as the
\* start-up built it, shares still fractions; so the stored filter result and
\* the figure at rest are those of the data set as built, for the current
\* parameters, however many times the callbacks have run.
C5_DatasetUnchanged ==
    Serving =>
        /\ df = df0
        /\ \A i \in 1..Len(df) :
             raw[i].share.k = "ok" => df[i].share = raw[i].share.num
        /\ ("filter_data" \notin pending /\ "reset_date_range" \notin pending
            /\ ~filtered_data.isNone)
           => filtered_data.records =
                InRangeAll(
                    SelectSeq(df0,
                        LAMBDA r : \/ selected_variants.kind = "str"
                                   \/ selected_variants.items = <<>>
                                   \/ Selected(selected_variants, r.variant)),
                    start_date, end_date)

\* at rest with data displayed, after the callbacks have run at page load
\* and again for a change of the date range or of the selection
C5_Witness ==
    /\ Ready
    /\ lastChange \in {"dates", "variants"}
    /\ Len(runs) >= 2
    /\ Len(filtered_data.records) > 0
    /\ figure.kind \in {"box", "bar"}

---------------------------------------------------------------------------
(* C6 *)

RECURSIVE SetSum(_, _)
\* the sum of the shares of the records of rows with an index in S
SetSum(S, rows) ==
    IF S = {} THEN 0
    ELSE LET i == CHOOSE i \in S : TRUE
         IN rows[i].share + SetSum(S \ {i}, rows)

\* the indices of the records of a category, and of those with a share
IndicesOf(rows, v) == {i \in 1..Len(rows) : rows[i].variant = v}
WithShare(rows, v) == {i \in IndicesOf(rows, v) : rows[i].share # NaN}

\* C6: in 'bar' mode update_graph on a non-empty filtered sequence yields one
\* row per category present in the input (none missing, duplicated or
\* invented); the value of category C's row is the arithmetic mean of the
\* percentage shares of the input records of C (NaN when none of them has a
\* share), and for a category with one record it is that record's share.
C6_OneMeanPerCategory ==
    (GraphCalled /\ lastCall.mode = "bar" /\ ~lastCall.data.isNone
     /\ Len(lastCall.data.records) > 0) =>
        LET rows == lastCall.data.records
            bars == lastRet.fig.bars
        IN /\ lastRet.ok
           /\ lastRet.fig.kind = "bar"
           /\ \A k \in 1..Len(bars) : IndicesOf(rows, bars[k].variant) # {}
           /\ \A i \in 1..Len(rows) :
                Cardinality({k \in 1..Len(bars) :
                                bars[k].variant = rows[i].variant}) = 1
           /\ \A k \in 1..Len(bars) :
                LET P == WithShare(rows, bars[k].variant)
                    I == IndicesOf(rows, bars[k].variant)
                    m == bars[k].share
                IN /\ m.nan <=> (P = {})
                   /\ ~m.nan => /\ m.den > 0
                                /\ m.num * Cardinality(P) = SetSum(P, rows) * m.den
                   /\ (Cardinality(I) = 1 /\ ~m.nan)
                        => \A i \in I : m.num = rows[i].share * m.den

\* a 'bar' request over two records of one category with different shares
C6_Witness ==
    /\ GraphCalled
    /\ lastCall.mode = "bar"
    /\ \E i, j \in 1..Len(lastCall.data.records) :
          /\ lastCall.data.records[i].variant = lastCall.data.records[j].variant
          /\ lastCall.data.records[i].share # NaN
          /\ lastCall.data.records[j].share # NaN
          /\ lastCall.data.records[i].share # lastCall.data.records[j].share
    /\ Len(lastRet.fig.bars) = 1

---------------------------------------------------------------------------
(* C7 *)

\* C7: on an empty filtered input (an empty list, or no stored result yet)
\* update_graph in either display mode returns the "no data" figure: not a
\* grouped or plotted figure, and not an error.
C7_EmptyInputIsNoData ==
    (GraphCalled /\ lastCall.mode \in {"box", "bar"}
     /\ (lastCall.data.isNone \/ lastCall.data.records = <<>>))
        => (lastRet.ok /\ lastRet.fig = FigNoData)

\* a request on the empty list a filter of a non-empty data set returned
C7_Witness ==
    /\ GraphCalled
    /\ Len(df) > 0
    /\ lastCall.mode = "bar"
    /\ ~lastCall.data.isNone
    /\ lastCall.data.records = <<>>
    /\ lastRet.fig.kind = "nodata"

---------------------------------------------------------------------------
(* C9 *)

\* C9: once every requested callback has run, the figure displayed is the
\* aggregation, under the current display mode, of the filter result for the
\* current date range and selection; after a reset click the date range is
\* the default one and the mode is 'bar'.
C9_DisplayIsCurrent ==
    Ready =>
        /\ LET f == filter_data(df, start_date, end_date, selected_variants)
               g == update_graph(StoreOf(f.records), graph_type)
           IN f.ok /\ g.ok /\ figure = g.fig
        /\ (lastChange = "reset" /\ idleAtChange)
             => /\ start_date = start_date_default
                /\ end_date = end_date_default
                /\ graph_type = "bar"

\* C9 for the two display modes: what remains true of the session
DisplayIsCurrentForAMode ==
    (Ready /\ graph_type \in {"box", "bar"}) => C9_DisplayIsCurrent

=============================================================================
